---- MODULE Spec2Model ----
(***************************************************************************)
(* C-And-Cpp-Notes: four independent demonstration programs.               *)
(*   src/STL/PartialSort.cpp              partial-sort demo                *)
(*   src/InterviewQues/function_Overload.cpp   overload demo               *)
(*   src/InterviewQues/Weird_Integral.cpp      promotion demo              *)
(*   src/initializerList.cpp              initializer_list notes (snippets)*)
(* A behaviour is one run of one program: prog says which one.             *)
(***************************************************************************)
EXTENDS Integers, Sequences, FiniteSets, TLC

VARIABLES
    prog,       \* which program this run is
    pc,         \* position in its main
    out,        \* items inserted into std::cout, in order
    exitCode,   \* process exit status, NotExited while running
    stdin,      \* the characters of standard input
    cinPos,     \* std::cin: index of the next unread character
    cinFail,    \* std::cin: failbit
    inputIt,    \* PartialSort.cpp:11 istream_iterator: [ok, value]
    vec,        \* PartialSort.cpp:13 std::vector<int> vec
    vec0,       \* history: vec as constructed at line 13
    sortedN,    \* PartialSort.cpp:18 startingSortedValuesFromEntireVector
    ub,         \* an iterator past vec.end() was handed to partial_sort
    binding,    \* function_Overload.cpp: overload chosen at each call site
    operands,   \* Weird_Integral.cpp:4-8 var1..var4
    result1,    \* Weird_Integral.cpp:15
    result2,    \* Weird_Integral.cpp:16
    snippet     \* initializerList.cpp: which class snippet (A or X)

vars == <<prog, pc, out, exitCode, stdin, cinPos, cinFail, inputIt, vec, vec0,
          sortedN, ub, binding, operands, result1, result2, snippet>>

sortVars == <<stdin, cinPos, cinFail, inputIt, vec, vec0, sortedN, ub>>
promoVars == <<operands, result1, result2>>

\* ------------------------------------------------------------------ bounds

\* Longest input, in whitespace-separated tokens.
MaxTokens == 4

\* ------------------------------------------------------------ common parts

NotExited == -1

Str(s) == [kind |-> "str", text |-> s, val |-> 0]
Num(v) == [kind |-> "int", text |-> "", val |-> v]
Endl == Str("\n")

\* --------------------------------------------------------- standard input

Digits == <<"0", "1", "2", "3", "4", "5", "6", "7", "8", "9">>
IsDigit(c) == \E i \in 1..10 : Digits[i] = c
DigitVal(c) == (CHOOSE i \in 1..10 : Digits[i] = c) - 1
IsSpace(c) == c \in {" ", "\n", "\t"}

INT_MAX == 2147483647
INT_MIN == (-2147483647) - 1

\* The tokens inputs are built from: integers, a token that is no number,
\* a number followed by a letter, two numbers run together, and a number
\* too large for int.
TokenSet ==
    { <<"1">>, <<"2">>, <<"3">>, <<"-", "1">>, <<"x">>, <<"2", "x">>,
      <<"1", "-", "1">>,
      <<"9", "9", "9", "9", "9", "9", "9", "9", "9", "9">> }

RECURSIVE Join(_)
Join(ts) ==
    IF ts = <<>> THEN <<>>
    ELSE IF Len(ts) = 1 THEN Head(ts) \o <<"\n">>
    ELSE Head(ts) \o <<" ">> \o Join(Tail(ts))

TokenSeqs == UNION { [1..n -> TokenSet] : n \in 0..MaxTokens }
Inputs == { Join(ts) : ts \in TokenSeqs }

\* std::ws of the sentry of operator>>: the first position at or after pos
\* that holds no whitespace (Len(s)+1 at end of input).
RECURSIVE SkipWs(_, _)
SkipWs(s, pos) ==
    IF pos <= Len(s) /\ IsSpace(s[pos]) THEN SkipWs(s, pos + 1) ELSE pos

\* num_get<>::_M_extract_int, base 10: consumes the run of digits from pos,
\* accumulating the negated magnitude r; over is set once the value leaves
\* the range ending at limit.
RECURSIVE ExtractDigits(_, _, _, _, _, _)
ExtractDigits(s, pos, r, over, n, limit) ==
    IF pos <= Len(s) /\ IsDigit(s[pos])
    THEN LET d == DigitVal(s[pos])
             fits == ~over /\ r >= -214748364 /\ r * 10 >= limit + d
         IN ExtractDigits(s, pos + 1, IF fits THEN r * 10 - d ELSE r,
                          ~fits, n + 1, limit)
    ELSE [r |-> r, over |-> over, n |-> n, pos |-> pos]

\* Mutant of ExtractInt: an extraction succeeds only when the digits run up
\* to whitespace or the end of input, i.e. only on a whole token.
ExtractIntWholeToken(s, pos) ==
    LET p1 == SkipWs(s, pos) IN
    IF p1 > Len(s) THEN [ok |-> FALSE, val |-> 0, pos |-> p1]
    ELSE LET neg == s[p1] = "-"
             p2 == IF s[p1] \in {"+", "-"} THEN p1 + 1 ELSE p1
             e == ExtractDigits(s, p2, 0, FALSE, 0,
                                IF neg THEN INT_MIN ELSE -INT_MAX)
             whole == e.pos > Len(s) \/ IsSpace(s[e.pos])
         IN IF e.n = 0 \/ e.over \/ ~whole
            THEN [ok |-> FALSE, val |-> 0, pos |-> e.pos]
            ELSE [ok |-> TRUE, val |-> IF neg THEN e.r ELSE -e.r,
                  pos |-> e.pos]

\* std::cin >> int from position pos: skip whitespace, an optional sign, a
\* run of digits. It fails at end of input, when no digit is found, and when
\* the number does not fit in int.
ExtractInt(s, pos) ==
    LET p1 == SkipWs(s, pos) IN
    IF p1 > Len(s) THEN [ok |-> FALSE, val |-> 0, pos |-> p1]
    ELSE LET neg == s[p1] = "-"
             p2 == IF s[p1] \in {"+", "-"} THEN p1 + 1 ELSE p1
             e == ExtractDigits(s, p2, 0, FALSE, 0,
                                IF neg THEN INT_MIN ELSE -INT_MAX)
         IN IF e.n = 0 THEN [ok |-> FALSE, val |-> 0, pos |-> e.pos]
            ELSE IF e.over
                 THEN [ok |-> FALSE,
                       val |-> IF neg THEN INT_MIN ELSE INT_MAX,
                       pos |-> e.pos]
                 ELSE [ok |-> TRUE,
                       val |-> IF neg THEN e.r ELSE -e.r,
                       pos |-> e.pos]

\* istream_iterator<int>::_M_read on a stream in state [pos, fail]: a failed
\* stream extracts nothing; a failed extraction ends the iterator.
M_read(s, pos, fail) ==
    IF fail THEN [ok |-> FALSE, val |-> 0, pos |-> pos, fail |-> TRUE]
    ELSE LET e == ExtractInt(s, pos)
         IN [ok |-> e.ok, val |-> e.val, pos |-> e.pos, fail |-> ~e.ok]

\* std::vector<int>(first, last) over input iterators: while the iterator is
\* not the end iterator, append *it and ++it. Yields the vector and the
\* stream state it leaves.
RECURSIVE FillVector(_, _, _, _, _)
FillVector(s, it, pos, fail, acc) ==
    IF ~it.ok THEN [vec |-> acc, pos |-> pos, fail |-> fail]
    ELSE LET r == M_read(s, pos, fail)
         IN FillVector(s, [ok |-> r.ok, value |-> r.val], r.pos, r.fail,
                       Append(acc, it.value))

\* ------------------------------------------------------ std::partial_sort
\* Ranges are 0-based offsets from vec.begin(), as the iterators are.

\* Integer division of C++: the quotient is truncated towards zero.
quot(x, y) == IF x >= 0 THEN x \div y ELSE -((-x) \div y)

At(a, i) == a[i + 1]
Put(a, i, v) == [a EXCEPT ![i + 1] = v]

\* std::__push_heap: move value up from holeIndex towards topIndex.
RECURSIVE push_heap(_, _, _, _)
push_heap(a, holeIndex, topIndex, value) ==
    LET parent == quot(holeIndex - 1, 2) IN
    IF holeIndex > topIndex /\ At(a, parent) < value
    THEN push_heap(Put(a, holeIndex, At(a, parent)), parent, topIndex, value)
    ELSE Put(a, holeIndex, value)

\* The first loop of std::__adjust_heap: move the larger child up into the
\* hole until the hole has no two children.
RECURSIVE sift_hole(_, _, _, _)
sift_hole(a, holeIndex, secondChild, len) ==
    IF secondChild < quot(len - 1, 2)
    THEN LET c == 2 * (secondChild + 1)
             sc == IF At(a, c) < At(a, c - 1) THEN c - 1 ELSE c
         IN sift_hole(Put(a, holeIndex, At(a, sc)), sc, sc, len)
    ELSE [a |-> a, holeIndex |-> holeIndex, secondChild |-> secondChild]

\* std::__adjust_heap(first, holeIndex, len, value).
adjust_heap(a, holeIndex, len, value) ==
    LET s == sift_hole(a, holeIndex, holeIndex, len)
        t == IF len % 2 = 0 /\ s.secondChild = quot(len - 2, 2)
             THEN LET c == 2 * (s.secondChild + 1)
                  IN [a |-> Put(s.a, s.holeIndex, At(s.a, c - 1)),
                      holeIndex |-> c - 1]
             ELSE [a |-> s.a, holeIndex |-> s.holeIndex]
    IN push_heap(t.a, t.holeIndex, holeIndex, value)

\* Mutant of pop_heap: the old top is sifted in instead of the value taken
\* out of result, which is lost.
pop_heap_lossy(a, last, result) ==
    adjust_heap(Put(a, result, At(a, 0)), 0, last, At(a, 0))

\* std::__pop_heap(first, last, result): the top goes to result, the value
\* that was at result is sifted into the heap [0, last).
pop_heap(a, last, result) ==
    LET value == At(a, result)
    IN adjust_heap(Put(a, result, At(a, 0)), 0, last, value)

\* The loop of std::__make_heap, from parent down to 0.
RECURSIVE make_heap_from(_, _, _)
make_heap_from(a, parent, len) ==
    LET b == adjust_heap(a, parent, len, At(a, parent))
    IN IF parent = 0 THEN b ELSE make_heap_from(b, parent - 1, len)

\* std::__make_heap(first, last) with last - first = len.
make_heap(a, len) ==
    IF len < 2 THEN a ELSE make_heap_from(a, quot(len - 2, 2), len)

\* The loop of std::__heap_select over i in [middle, last).
RECURSIVE heap_select_from(_, _, _, _)
heap_select_from(a, i, middle, last) ==
    IF i < last
    THEN heap_select_from(
             IF At(a, i) < At(a, 0) THEN pop_heap(a, middle, i) ELSE a,
             i + 1, middle, last)
    ELSE a

\* Mutant of heap_select: the elements of [middle, last) are never compared
\* with the top of the heap.
heap_select_noscan(a, middle, last) == make_heap(a, middle)

\* std::__heap_select(first, middle, last).
heap_select(a, middle, last) ==
    heap_select_from(make_heap(a, middle), middle, middle, last)

\* std::__sort_heap(first, last).
RECURSIVE sort_heap(_, _)
sort_heap(a, last) ==
    IF last > 1 THEN sort_heap(pop_heap(a, last - 1, last - 1), last - 1)
    ELSE a

\* std::partial_sort(first, middle, last), for middle within [first, last].
partial_sort(a, middle, last) ==
    sort_heap(heap_select(a, middle, last), middle)

\* ------------------------------------------------- src/STL/PartialSort.cpp

\* PartialSort.cpp:18,29 the 3 of vec.begin() + 3.
Middle == 3

\* Exit status of a process killed by SIGSEGV.
CrashExit == 128 + 11

\* What of std::cout reaches the terminal or file when the process is
\* killed: everything when each insertion is written through, only the
\* prompt (flushed by the read of std::cin, line 11) when it is buffered.
SurvivingOutput(o) == { o, SubSeq(o, 1, 1) }

\* What [vec.begin(), vec.begin() + Middle) can hold after partial_sort ran
\* over a range that ends past vec.end(): the heap routines read and write
\* the words behind the vector, so each element is one of the vector's
\* values or whatever those words held.
UBVecs(v) ==
    [1..Len(v) -> {0} \cup { v[i] : i \in 1..Len(v) }]

\* PartialSort.cpp:8
Prompt ==
    /\ prog = "sort" /\ pc = "l8"
    /\ out' = Append(out,
           Str("Enter vector elements (Ctrl+D or Ctrl+Z to end input): "))
    /\ pc' = "l11"
    /\ UNCHANGED <<prog, exitCode, sortVars, binding, promoVars, snippet>>

\* PartialSort.cpp:11 the constructor reads the first value.
ConstructInputIt ==
    /\ prog = "sort" /\ pc = "l11"
    /\ LET r == M_read(stdin, cinPos, cinFail)
       IN /\ inputIt' = [ok |-> r.ok, value |-> r.val]
          /\ cinPos' = r.pos
          /\ cinFail' = r.fail
    /\ pc' = "l13"
    /\ UNCHANGED <<prog, out, exitCode, stdin, vec, vec0, sortedN, ub,
                   binding, promoVars, snippet>>

\* PartialSort.cpp:12-13 vec(inputIt, end); the iterator is passed by value.
ConstructVec ==
    /\ prog = "sort" /\ pc = "l13"
    /\ LET f == FillVector(stdin, inputIt, cinPos, cinFail, <<>>)
       IN /\ vec' = f.vec
          /\ vec0' = f.vec
          /\ cinPos' = f.pos
          /\ cinFail' = f.fail
    /\ pc' = "l15"
    /\ UNCHANGED <<prog, out, exitCode, stdin, inputIt, sortedN, ub,
                   binding, promoVars, snippet>>

\* PartialSort.cpp:15-19 distance(vec.begin(), vec.begin() + 3) is the
\* difference of two pointers Middle elements apart, whatever vec holds.
PrintHeader ==
    /\ prog = "sort" /\ pc = "l15"
    /\ sortedN' = Middle
    /\ out' = out \o <<Str("\nPartial Sort:\n"), Str("First "), Num(Middle),
                       Str(" sorted elements are:\n")>>
    /\ pc' = "l29"
    /\ UNCHANGED <<prog, exitCode, stdin, cinPos, cinFail, inputIt, vec, vec0,
                   ub, binding, promoVars, snippet>>

\* Mutant of PartialSortStep: the call is guarded by a check of vec.size().
PartialSortChecked ==
    /\ prog = "sort" /\ pc = "l29"
    /\ vec' = IF Middle <= Len(vec) THEN partial_sort(vec, Middle, Len(vec))
              ELSE vec
    /\ ub' = FALSE
    /\ pc' = "l32"
    /\ UNCHANGED <<prog, out, exitCode, stdin, cinPos, cinFail, inputIt, vec0,
                   sortedN, binding, promoVars, snippet>>

\* PartialSort.cpp:29 with no check of vec.size() before it. When
\* vec.begin() + 3 is past vec.end() the call is undefined: the process is
\* killed (losing output still buffered) or goes on with a clobbered vector.
PartialSortStep ==
    /\ prog = "sort" /\ pc = "l29"
    /\ IF Middle <= Len(vec)
       THEN /\ vec' = partial_sort(vec, Middle, Len(vec))
            /\ ub' = FALSE
            /\ pc' = "l32"
            /\ UNCHANGED <<out, exitCode>>
       ELSE /\ ub' = TRUE
            /\ \/ /\ vec' \in UBVecs(vec)
                  /\ pc' = "l32"
                  /\ UNCHANGED <<out, exitCode>>
               \/ /\ pc' = "crashed"
                  /\ exitCode' = CrashExit
                  /\ out' \in SurvivingOutput(out)
                  /\ UNCHANGED vec
    /\ UNCHANGED <<prog, stdin, cinPos, cinFail, inputIt, vec0, sortedN,
                   binding, promoVars, snippet>>

\* PartialSort.cpp:32-34 for (auto el : vec) cout << el << " "; then endl.
RECURSIVE PrintElements(_)
PrintElements(v) ==
    IF v = <<>> THEN <<>>
    ELSE <<Num(Head(v)), Str(" ")>> \o PrintElements(Tail(v))

PrintVec ==
    /\ prog = "sort" /\ pc = "l32"
    /\ out' = out \o PrintElements(vec) \o <<Endl>>
    /\ pc' = "l36"
    /\ UNCHANGED <<prog, exitCode, sortVars, binding, promoVars, snippet>>

\* PartialSort.cpp:36
SortReturn ==
    /\ prog = "sort" /\ pc = "l36"
    /\ exitCode' = 0
    /\ pc' = "exited"
    /\ UNCHANGED <<prog, out, sortVars, binding, promoVars, snippet>>

\* ------------------------------------ src/InterviewQues/function_Overload.cpp

\* function_Overload.cpp:6-16 the three declarations of say_my_name.
Overloads ==
    { [label |-> "const ref", line |-> 6, ref |-> TRUE, const |-> TRUE,
       text |-> "Your name is (const ref) : "],
      [label |-> "non-const ref", line |-> 10, ref |-> TRUE, const |-> FALSE,
       text |-> "Your name is (non-const ref) : "],
      [label |-> "by value", line |-> 14, ref |-> FALSE, const |-> FALSE,
       text |-> "Your name is (by value) : "] }

\* function_Overload.cpp:20-30 the three calls and their arguments: s1 is a
\* std::string lvalue, s2 a const std::string lvalue, the third a prvalue.
CallSites ==
    << [line |-> 24, arg |-> "s1", value |-> "Himanshu",
        lvalue |-> TRUE, const |-> FALSE],
       [line |-> 27, arg |-> "s2", value |-> "Pathak",
        lvalue |-> TRUE, const |-> TRUE],
       [line |-> 30, arg |-> "std::string{}", value |-> "Sunny",
        lvalue |-> FALSE, const |-> FALSE] >>

\* Whether the argument can initialise the parameter: std::string& binds
\* only to a non-const lvalue; const std::string& and std::string (copied
\* or moved into) accept every std::string argument.
Viable(f, a) ==
    IF f.ref /\ ~f.const THEN a.lvalue /\ ~a.const ELSE TRUE

\* Whether f's conversion of a is better than g's. Every viable conversion
\* here is an identity conversion, so the only rule that separates two of
\* them is the one for two reference bindings to the same type: the
\* reference to the less cv-qualified type is better. A by-value parameter
\* is neither better nor worse than a reference.
BetterConversion(f, g, a) ==
    f.ref /\ g.ref /\ ~f.const /\ g.const

\* Overload resolution of say_my_name(a): the viable function better than
\* every other viable function, if there is one.
Resolve(a) ==
    LET viable == { f \in Overloads : Viable(f, a) }
        best == { f \in viable :
                    \A g \in viable \ {f} : BetterConversion(f, g, a) }
    IN IF viable = {} THEN "no match"
       ELSE IF best = {} THEN "ambiguous"
       ELSE (CHOOSE f \in best : TRUE).label

OverloadByLabel(l) == CHOOSE f \in Overloads : f.label = l

\* Translation of main: the next call of say_my_name is resolved.
ResolveCall ==
    /\ prog = "overload" /\ pc = "translate"
    /\ Len(binding) < Len(CallSites)
    /\ binding' = Append(binding, Resolve(CallSites[Len(binding) + 1]))
    /\ pc' = IF Len(binding') = Len(CallSites) THEN "translated"
             ELSE "translate"
    /\ UNCHANGED <<prog, out, exitCode, sortVars, promoVars, snippet>>

WellFormed(b) ==
    \A i \in 1..Len(b) : b[i] \in { f.label : f \in Overloads }

\* function_Overload.cpp:7,11,15 the body of the overload bound at site i.
SayMyName(b, i) ==
    <<Str(OverloadByLabel(b[i]).text), Str(CallSites[i].value), Endl>>

\* function_Overload.cpp:18-37 main: a program with a call that does not
\* resolve is ill-formed and there is nothing to run; otherwise the three
\* calls run in order and main returns 0.
OverloadMain ==
    /\ prog = "overload" /\ pc = "translated"
    /\ IF WellFormed(binding)
       THEN /\ out' = SayMyName(binding, 1) \o SayMyName(binding, 2)
                      \o SayMyName(binding, 3)
            /\ exitCode' = 0
            /\ pc' = "exited"
       ELSE /\ pc' = "ill_formed"
            /\ UNCHANGED <<out, exitCode>>
    /\ UNCHANGED <<prog, sortVars, binding, promoVars, snippet>>

\* ------------------------------------- src/InterviewQues/Weird_Integral.cpp

\* Weird_Integral.cpp:4,7,18 sizes on the reference platform.
SizeOf(t) ==
    CASE t = "char" -> 1
      [] t = "short" -> 2
      [] t = "int" -> 4

\* Integer conversion rank.
Rank(t) ==
    CASE t = "char" -> 1
      [] t = "short" -> 2
      [] t = "int" -> 3

\* Mutant of Promote: operands keep their own type.
NoPromote(t) == t

\* Integral promotion: a type of rank below int becomes int (int holds all
\* the values of char and short here).
Promote(t) == IF Rank(t) < Rank("int") THEN "int" ELSE t

\* The value v as an object of type t holds it: int results of two promoted
\* operands always fit; a narrower type keeps the low bits, two's complement.
Narrow(v, t) ==
    IF t = "int" THEN v
    ELSE LET m == 2 ^ (8 * SizeOf(t))
         IN ((v + m \div 2) % m) - m \div 2

\* x + y: both operands are promoted, the sum has the common (promoted) type.
Plus(x, y) ==
    LET tx == Promote(x.type)
        ty == Promote(y.type)
        t == IF Rank(tx) >= Rank(ty) THEN tx ELSE ty
    IN [type |-> t, val |-> Narrow(x.val + y.val, t)]

\* Values the operands are drawn from: those of Weird_Integral.cpp:4-8 and
\* the ends of each type's range.
ShortVals == {10, 20, 32767, -32768}
CharVals == {40, 50, 100, 127}

SourceOperands ==
    [var1 |-> [type |-> "short", val |-> 10],
     var2 |-> [type |-> "short", val |-> 20],
     var3 |-> [type |-> "char", val |-> 40],
     var4 |-> [type |-> "char", val |-> 50]]

OperandChoices ==
    { [var1 |-> [type |-> "short", val |-> a],
       var2 |-> [type |-> "short", val |-> b],
       var3 |-> [type |-> "char", val |-> c],
       var4 |-> [type |-> "char", val |-> d]] :
      a \in ShortVals, b \in ShortVals, c \in CharVals, d \in CharVals }

NoResult == [type |-> "none", val |-> 0]

\* Weird_Integral.cpp:10-13
PrintOperandSizes ==
    /\ prog = "promotion" /\ pc = "l10"
    /\ out' = out \o
         <<Str("size of var1 : "), Num(SizeOf(operands.var1.type)), Endl,
           Str("size of var2 : "), Num(SizeOf(operands.var2.type)), Endl,
           Str("size of var3 : "), Num(SizeOf(operands.var3.type)), Endl,
           Str("size of var4 : "), Num(SizeOf(operands.var4.type)), Endl>>
    /\ pc' = "l15"
    /\ UNCHANGED <<prog, exitCode, sortVars, binding, promoVars, snippet>>

\* Weird_Integral.cpp:15-16 auto takes the type of the sum.
AddOperands ==
    /\ prog = "promotion" /\ pc = "l15"
    /\ result1' = Plus(operands.var1, operands.var2)
    /\ result2' = Plus(operands.var3, operands.var4)
    /\ pc' = "l18"
    /\ UNCHANGED <<prog, out, exitCode, sortVars, binding, operands, snippet>>

\* Weird_Integral.cpp:18-19
PrintResultSizes ==
    /\ prog = "promotion" /\ pc = "l18"
    /\ out' = out \o
         <<Str("size of result1 : "), Num(SizeOf(result1.type)), Endl,
           Str("size of result2 : "), Num(SizeOf(result2.type)), Endl>>
    /\ pc' = "l22"
    /\ UNCHANGED <<prog, exitCode, sortVars, binding, promoVars, snippet>>

\* Weird_Integral.cpp:22
PromotionReturn ==
    /\ prog = "promotion" /\ pc = "l22"
    /\ exitCode' = 0
    /\ pc' = "exited"
    /\ UNCHANGED <<prog, out, sortVars, binding, promoVars, snippet>>

\* ---------------------------------------------------- src/initializerList.cpp

\* initializerList.cpp:117-121 (class A) and 179-183 (class X): each class
\* declares a constructor from int and one from std::initializer_list<int>.
Constructors(class) ==
    { [prints |-> "int\n", initList |-> FALSE, arity |-> 1],
      [prints |-> "init list\n", initList |-> TRUE, arity |-> 1] }

\* initializerList.cpp:123-124 and 185-186: the argument of each snippet.
SnippetArgs(class) == IF class = "A" THEN <<10>> ELSE <<1>>

\* Mutant of ResolveConstructor: braces are treated like parentheses.
ResolveConstructorByArgs(class, form, args) ==
    LET byArgs == { c \in Constructors(class) :
                      ~c.initList /\ c.arity = Len(args) }
    IN IF Cardinality(byArgs) = 1 THEN (CHOOSE c \in byArgs : TRUE).prints
       ELSE "error"

\* The constructor an initialisation with int arguments selects. With
\* braces, the initializer-list constructors are tried first with the whole
\* list as their one argument, and only if none is viable are all
\* constructors tried with the elements as arguments. With parentheses the
\* arguments are matched against the parameters: an int does not convert to
\* std::initializer_list<int>.
ResolveConstructor(class, form, args) ==
    LET byArgs == { c \in Constructors(class) :
                      ~c.initList /\ c.arity = Len(args) }
        byList == { c \in Constructors(class) : c.initList }
        chosen == IF form = "brace" /\ byList # {} THEN byList ELSE byArgs
    IN IF Cardinality(chosen) = 1 THEN (CHOOSE c \in chosen : TRUE).prints
       ELSE "error"

\* initializerList.cpp:123,185  A a(10);  X a(1);
InitParen ==
    /\ prog = "initlist" /\ pc = "paren"
    /\ out' = Append(out,
           Str(ResolveConstructor(snippet, "paren", SnippetArgs(snippet))))
    /\ pc' = "brace"
    /\ UNCHANGED <<prog, exitCode, sortVars, binding, promoVars, snippet>>

\* initializerList.cpp:124,186  A b{10};  X b{1};
InitBrace ==
    /\ prog = "initlist" /\ pc = "brace"
    /\ out' = Append(out,
           Str(ResolveConstructor(snippet, "brace", SnippetArgs(snippet))))
    /\ pc' = "end"
    /\ UNCHANGED <<prog, exitCode, sortVars, binding, promoVars, snippet>>

\* ------------------------------------------------------------ specification

Programs == {"sort", "overload", "promotion", "initlist"}

EntryPoint(p) ==
    CASE p = "sort" -> "l8"
      [] p = "overload" -> "translate"
      [] p = "promotion" -> "l10"
      [] p = "initlist" -> "paren"

Init ==
    /\ prog \in Programs
    /\ pc = EntryPoint(prog)
    /\ out = <<>>
    /\ exitCode = NotExited
    /\ stdin \in (IF prog = "sort" THEN Inputs ELSE {<<>>})
    /\ cinPos = 1
    /\ cinFail = FALSE
    /\ inputIt = [ok |-> FALSE, value |-> 0]
    /\ vec = <<>>
    /\ vec0 = <<>>
    /\ sortedN = 0
    /\ ub = FALSE
    /\ binding = <<>>
    /\ operands \in (IF prog = "promotion" THEN OperandChoices
                     ELSE {SourceOperands})
    /\ result1 = NoResult
    /\ result2 = NoResult
    /\ snippet \in (IF prog = "initlist" THEN {"A", "X"} ELSE {"A"})

Next ==
    \/ Prompt
    \/ ConstructInputIt
    \/ ConstructVec
    \/ PrintHeader
    \/ PartialSortStep
    \/ PrintVec
    \/ SortReturn
    \/ ResolveCall
    \/ OverloadMain
    \/ PrintOperandSizes
    \/ AddOperands
    \/ PrintResultSizes
    \/ PromotionReturn
    \/ InitParen
    \/ InitBrace

Spec == Init /\ [][Next]_vars

\* ------------------------------------------------- vocabulary of the claims

\* s in ascending order (insertion sort).
RECURSIVE InsertSorted(_, _)
InsertSorted(x, s) ==
    IF s = <<>> THEN <<x>>
    ELSE IF x <= Head(s) THEN <<x>> \o s
    ELSE <<Head(s)>> \o InsertSorted(x, Tail(s))

RECURSIVE Ascending(_)
Ascending(s) ==
    IF s = <<>> THEN <<>> ELSE InsertSorted(Head(s), Ascending(Tail(s)))

\* The integers printed after the header lines (the prompt and the four
\* items of lines 15-19).
RECURSIVE IntsOf(_)
IntsOf(o) ==
    IF o = <<>> THEN <<>>
    ELSE IF Head(o).kind = "int" THEN <<Head(o).val>> \o IntsOf(Tail(o))
    ELSE IntsOf(Tail(o))

PrintedAfterHeader(o) == IntsOf(SubSeq(o, 6, Len(o)))

\* The whitespace-separated tokens of an input.
RECURSIVE TokensFrom(_, _, _, _)
TokensFrom(s, i, cur, acc) ==
    IF i > Len(s) THEN (IF cur = <<>> THEN acc ELSE Append(acc, cur))
    ELSE IF IsSpace(s[i])
         THEN TokensFrom(s, i + 1, <<>>,
                         IF cur = <<>> THEN acc ELSE Append(acc, cur))
         ELSE TokensFrom(s, i + 1, Append(cur, s[i]), acc)

Tokenise(s) == TokensFrom(s, 1, <<>>, <<>>)

RECURSIVE StripZeros(_)
StripZeros(ds) ==
    IF Len(ds) > 1 /\ Head(ds) = "0" THEN StripZeros(Tail(ds)) ELSE ds

\* Digit strings of equal length, compared as numbers.
RECURSIVE DigitsLeq(_, _)
DigitsLeq(x, y) ==
    IF x = <<>> THEN TRUE
    ELSE IF DigitVal(Head(x)) # DigitVal(Head(y))
         THEN DigitVal(Head(x)) < DigitVal(Head(y))
         ELSE DigitsLeq(Tail(x), Tail(y))

MaxMagnitude(neg) ==
    IF neg THEN <<"2", "1", "4", "7", "4", "8", "3", "6", "4", "8">>
    ELSE <<"2", "1", "4", "7", "4", "8", "3", "6", "4", "7">>

\* Whether the digit string ds, with the sign, is a value of int.
FitsInt(neg, ds) ==
    LET z == StripZeros(ds)
    IN Len(z) < 10 \/ (Len(z) = 10 /\ DigitsLeq(z, MaxMagnitude(neg)))

RECURSIVE NegatedValue(_, _)
NegatedValue(ds, r) ==
    IF ds = <<>> THEN r
    ELSE NegatedValue(Tail(ds), r * 10 - DigitVal(Head(ds)))

NumeralValue(neg, ds) ==
    IF neg THEN NegatedValue(ds, 0) ELSE -NegatedValue(ds, 0)

\* A token that is an integer: an optional sign and one or more digits,
\* naming a value of int.
IsIntToken(t) ==
    LET signed == t # <<>> /\ Head(t) \in {"+", "-"}
        ds == IF signed THEN Tail(t) ELSE t
    IN /\ ds # <<>>
       /\ \A i \in 1..Len(ds) : IsDigit(ds[i])
       /\ FitsInt(signed /\ Head(t) = "-", ds)

TokenValue(t) ==
    LET signed == Head(t) \in {"+", "-"}
    IN NumeralValue(signed /\ Head(t) = "-", IF signed THEN Tail(t) ELSE t)

\* The integers that precede the first token that is not an integer.
RECURSIVE LeadingInts(_)
LeadingInts(ts) ==
    IF ts = <<>> \/ ~IsIntToken(Head(ts)) THEN <<>>
    ELSE <<TokenValue(Head(ts))>> \o LeadingInts(Tail(ts))

RECURSIVE DigitRunEnd(_, _)
DigitRunEnd(t, i) ==
    IF i <= Len(t) /\ IsDigit(t[i]) THEN DigitRunEnd(t, i + 1) ELSE i

\* The numbers a token starts with, read one after the other from position
\* i: each an optional sign and a run of digits naming a value of int.
\* complete says the token consists of such numbers and nothing else.
RECURSIVE Numerals(_, _, _)
Numerals(t, i, acc) ==
    IF i > Len(t) THEN [vals |-> acc, complete |-> TRUE]
    ELSE LET signed == t[i] \in {"+", "-"}
             j == IF signed THEN i + 1 ELSE i
             k == DigitRunEnd(t, j)
             ds == SubSeq(t, j, k - 1)
             neg == t[i] = "-"
         IN IF k = j \/ ~FitsInt(neg, ds)
            THEN [vals |-> acc, complete |-> FALSE]
            ELSE Numerals(t, k, Append(acc, NumeralValue(neg, ds)))

\* The integers of the leading integer tokens, then the numbers the first
\* other token starts with; a token made of numbers only (1-1) does not end
\* the reading.
RECURSIVE ExpectedVector(_)
ExpectedVector(ts) ==
    IF ts = <<>> THEN <<>>
    ELSE LET r == Numerals(Head(ts), 1, <<>>)
         IN r.vals \o (IF r.complete THEN ExpectedVector(Tail(ts)) ELSE <<>>)

SortStepDone == prog = "sort" /\ pc \in {"l32", "l36", "exited"}
VecRead == prog = "sort" /\ pc \notin {"l8", "l11", "l13"}

\* ------------------------------------------------------------------- claims

\* C1: for every input of n >= 3 integers, after the partial_sort step the
\* first 3 positions of vec hold the 3 smallest values of the input, in
\* ascending order, and every value in positions 3..n-1 is >= the value in
\* position 2.
C1_FrontIsThreeSmallest ==
    (SortStepDone /\ Len(vec0) >= Middle) =>
        /\ Len(vec) = Len(vec0)
        /\ SubSeq(vec, 1, Middle) = SubSeq(Ascending(vec0), 1, Middle)
        /\ \A i \in (Middle + 1)..Len(vec) : vec[i] >= vec[Middle]

\* C1 witness: the step has run on an input whose tail held one of the three
\* smallest values, and it moved elements.
C1_Witness ==
    /\ SortStepDone /\ Len(vec0) >= Middle + 1 /\ vec # vec0
    /\ \E i \in (Middle + 1)..Len(vec0) :
          \A j \in 1..Middle : vec0[i] < vec0[j]

\* C2: for every input of n >= 3 integers, the sequence printed after the
\* partial_sort step has exactly n elements and is a permutation of the
\* input; its last n-3 values are the input values left after removing the
\* 3 smallest.
C2_PrintedIsPermutation ==
    (prog = "sort" /\ pc \in {"l36", "exited"} /\ Len(vec0) >= Middle) =>
        LET p == PrintedAfterHeader(out)
            n == Len(vec0)
        IN /\ Len(p) = n
           /\ Ascending(p) = Ascending(vec0)
           /\ Ascending(SubSeq(p, Middle + 1, Len(p)))
                = SubSeq(Ascending(vec0), Middle + 1, n)

\* C2 witness: a run that printed five or more values in an order other than
\* the input's.
C2_Witness ==
    /\ prog = "sort" /\ pc = "exited" /\ Len(vec0) >= Middle + 2
    /\ PrintedAfterHeader(out) # vec0

\* C3: with fewer than 3 integers read, nothing checks the size and
\* vec.begin() + 3, past vec.end(), is passed to partial_sort; with 3 or
\* more this never happens.
C3_PastEndIffFewerThanThree ==
    /\ (prog = "sort" /\ pc \in {"l32", "l36", "exited", "crashed"}) =>
           (ub <=> Len(vec0) < Middle)
    /\ ub => (prog = "sort" /\ Len(vec0) < Middle)

\* C3 witness: partial_sort was called on a vector of two elements.
C3_Witness ==
    /\ prog = "sort" /\ pc \in {"l32", "crashed"} /\ ub /\ Len(vec0) = 2

\* C4: the call with the non-const std::string s1 binds to the
\* non-const-reference overload.
C4_NonConstLvalueBindsNonConstRef ==
    (prog = "overload" /\ Len(binding) >= 1) => binding[1] = "non-const ref"

\* C5: the call with the const std::string s2 binds to the const-reference
\* overload and never to the non-const-reference overload.
C5_ConstLvalueBindsConstRef ==
    (prog = "overload" /\ Len(binding) >= 2) =>
        (binding[2] = "const ref" /\ binding[2] # "non-const ref")

\* C6: the call with the temporary std::string{"Sunny"} binds to the
\* by-value overload, not to the const-reference overload.
C6_TemporaryBindsByValue ==
    (prog = "overload" /\ Len(binding) >= 3) =>
        (binding[3] = "by value" /\ binding[3] # "const ref")

\* C7: every run of the overload demo writes exactly three lines, the
\* non-const-reference line for s1, the const-reference line for s2 and the
\* by-value line for the temporary, and ends with exit code 0.
C7_ThreeLinesExitZero ==
    (prog = "overload" /\ pc \in {"exited", "ill_formed"}) =>
        /\ out = << Str("Your name is (non-const ref) : "), Str("Himanshu"),
                    Endl,
                    Str("Your name is (const ref) : "), Str("Pathak"), Endl,
                    Str("Your name is (by value) : "), Str("Sunny"), Endl >>
        /\ exitCode = 0

\* C8: the sum of two short operands and of two char operands has the size
\* of int (4 bytes), never the size of the narrower operand, and is computed
\* at int width (40 + 50 is 90, nothing wraps at 8 or 16 bits); those sizes
\* are what is printed.
C8_SumHasSizeOfInt ==
    /\ (prog = "promotion" /\ pc \in {"l18", "l22", "exited"}) =>
          /\ SizeOf(result1.type) = SizeOf("int")
          /\ SizeOf(result2.type) = SizeOf("int")
          /\ SizeOf(result1.type) # SizeOf(operands.var1.type)
          /\ SizeOf(result2.type) # SizeOf(operands.var3.type)
          /\ result1.val = operands.var1.val + operands.var2.val
          /\ result2.val = operands.var3.val + operands.var4.val
    /\ (prog = "promotion" /\ pc \in {"l22", "exited"}) =>
          /\ out[14] = Num(4)
          /\ out[17] = Num(4)

\* C8 witness: the sums of the source's operands, 10 + 20 and 40 + 50, have
\* been computed and their sizes printed.
C8_Witness ==
    /\ prog = "promotion" /\ pc = "exited" /\ operands = SourceOperands
    /\ result1 = [type |-> "int", val |-> 30]
    /\ result2 = [type |-> "int", val |-> 90]

\* C9: with a constructor from int and one from std::initializer_list<int>,
\* initialisation with parentheses (A a(10), X a(1)) runs the int
\* constructor and initialisation with braces (A b{10}, X b{1}) runs the
\* initializer_list constructor, even for a single element.
C9_BracesPickInitializerList ==
    prog = "initlist" =>
        /\ Len(out) >= 1 => out[1] = Str("int\n")
        /\ Len(out) >= 2 => out[2] = Str("init list\n")

\* C9 witness: both statements of the X snippet have run.
C9_Witness ==
    /\ prog = "initlist" /\ snippet = "X" /\ pc = "end" /\ Len(out) = 2

\* C10 as stated: the vector consists of exactly the integers that precede
\* the first token that is not an integer (or the end of input); reading
\* stops there.
C10_StopsAtFirstNonIntegerToken ==
    VecRead => vec0 = LeadingInts(Tokenise(stdin))

\* C10 as amended: the vector consists of the integers that precede the
\* first token that is not an integer, followed by the numbers that token
\* starts with (2x gives 2); a token made of numbers only (1-1 gives 1, -1)
\* does not stop the reading. Reading stops where no number of int can be
\* extracted.
C10_StopsAtFirstFailedExtraction ==
    VecRead => vec0 = ExpectedVector(Tokenise(stdin))

\* C10 witness: two integers, then 2x, then another integer: the vector has
\* three elements.
C10_Witness ==
    /\ VecRead
    /\ Tokenise(stdin) = << <<"1">>, <<"3">>, <<"2", "x">>, <<"3">> >>
    /\ vec0 = <<1, 3, 2>>

====
